---- MODULE Spec2Model ----
(***************************************************************************)
(* MarkdownRenderer (Dashboard component): the ordered substitution        *)
(* pipeline that turns the text returned by the generation service into    *)
(* an HTML fragment.                                                       *)
(*                                                                         *)
(* A text is a sequence of symbols.  A character of the input is a string  *)
(* of length one.  A literal chunk of markup written by the renderer (an   *)
(* opening tag with its attributes, a closing tag) is one symbol, a longer *)
(* string such as "<td>": no pattern of the pipeline can match part of a   *)
(* chunk (the chunks hold no '|', '*', newline, '---' or '# '), and the    *)
(* patterns that match markup ('<li>', '</li>', '</ul><ul>') match whole   *)
(* chunks.  Input texts hold no '<'.                                       *)
(***************************************************************************)
EXTENDS Integers, Sequences, FiniteSets, TLC

VARIABLES
    content,    \* the content prop: its type and, for a string, its text
    html,       \* the local html: the text the statements rewrite in turn
    tables,     \* per match of tableRegex, in order: the locals of the callback
    pc,         \* the statement of the pipeline that runs next
    video_url,  \* VideoLearningHub: result.video_url, the argument of getYouTubeEmbedUrl
    embedUrl    \* VideoLearningHub: the value getYouTubeEmbedUrl returned; null before

vars == <<content, html, tables, pc, video_url, embedUrl>>

-----------------------------------------------------------------------------
(* Characters and character classes of the patterns.                       *)

NL == "\n"
CR == "\r"
TAB == "\t"
SP == " "
PIPE == "|"
STAR == "*"
HASH == "#"
DASH == "-"
\* The backquote character (a string literal cannot hold it).
TICK == "BACKQUOTE"

\* String.prototype.trim: the white space it strips.
WhiteSpace == {SP, TAB, NL, CR}

\* '.' without the s flag: any character but a line terminator.
LineTerminators == {NL, CR}

Digits == {"0", "1", "2", "3", "4", "5", "6", "7", "8", "9"}

\* The class [-: ] of the header filter.
SeparatorChars == {DASH, ":", SP}

\* The class [ -:] of the row filters: the RANGE from ' ' (0x20) to ':' (0x3A).
RowFilterClass ==
    {SP, "!", "\"", "#", "$", "%", "&", "'", "(", ")", "*", "+", ",", "-", ".", "/", ":"}
        \cup Digits

\* The class [0-9.] of the cell-shift fix.
DigitsAndPeriods == Digits \cup {"."}

-----------------------------------------------------------------------------
(* String primitives.                                                      *)

Tail0(s, k) == SubSeq(s, k, Len(s))

\* The least and the greatest element of a set of indices; 0 when it is empty.
Least(I) == IF I = {} THEN 0 ELSE CHOOSE i \in I : \A j \in I : i <= j

Greatest(I) == IF I = {} THEN 0 ELSE CHOOSE i \in I : \A j \in I : j <= i

\* The least i in from..to with P(i); 0 when none.
FirstIdx(P(_), from, to) == Least({i \in from..to : P(i)})

\* k, or d when k is 0 (no index found).
OrElse(k, d) == IF k = 0 THEN d ELSE k

\* First index >= from of a symbol of s that lies in set cs; 0 when none.
IndexFrom(s, cs, from) == FirstIdx(LAMBDA i : s[i] \in cs, from, Len(s))

\* First index >= from of a symbol of s that lies outside cs; Len(s)+1 when none.
SkipFrom(s, cs, from) == OrElse(FirstIdx(LAMBDA i : s[i] \notin cs, from, Len(s)), Len(s) + 1)

\* Last index of a symbol of s that lies outside cs; 0 when none.
SkipBack(s, cs) == Greatest({i \in 1..Len(s) : s[i] \notin cs})

StartsWith(s, p) == Len(s) >= Len(p) /\ SubSeq(s, 1, Len(p)) = p

\* s has pattern p at index i.
HasAt(s, p, i) == i >= 1 /\ i + Len(p) - 1 <= Len(s) /\ SubSeq(s, i, i + Len(p) - 1) = p

\* First index >= from at which s has p; 0 when none.
Find(s, p, from) == FirstIdx(LAMBDA i : HasAt(s, p, i), from, Len(s))

\* s from index a to index b; empty when a lies past the end.
Slice(s, a, b) == IF a > Len(s) THEN <<>> ELSE SubSeq(s, a, b)

trim(s) == Slice(s, SkipFrom(s, WhiteSpace, 1), SkipBack(s, WhiteSpace))

RECURSIVE split(_, _)
RECURSIVE splitAt(_, _, _)
\* String.prototype.split on a one-character separator; splitAt: given the
\* index k of the first separator (0 when none).
splitAt(s, sep, k) ==
    IF k = 0 THEN <<s>>
    ELSE <<SubSeq(s, 1, k - 1)>> \o split(Tail0(s, k + 1), sep)

split(s, sep) == splitAt(s, sep, IndexFrom(s, {sep}, 1))

RECURSIVE join(_)
\* Array.prototype.join('').
join(ss) == IF ss = <<>> THEN <<>> ELSE Head(ss) \o join(Tail(ss))

\* replaceAll without the g flag: only the first match is replaced.
replaceAll_First(s, p, r) ==
    IF Find(s, p, 1) = 0 THEN s
    ELSE SubSeq(s, 1, Find(s, p, 1) - 1) \o r \o Tail0(s, Find(s, p, 1) + Len(p))

RECURSIVE replaceAll(_, _, _)
RECURSIVE replaceAt(_, _, _, _)
\* String.prototype.replace with a global pattern of literal symbols;
\* replaceAt: given the index k of the first match (0 when none).
replaceAt(s, p, r, k) ==
    IF k = 0 THEN s
    ELSE SubSeq(s, 1, k - 1) \o r \o replaceAll(Tail0(s, k + Len(p)), p, r)

replaceAll(s, p, r) == replaceAt(s, p, r, Find(s, p, 1))

AllIn(s, cs) == \A i \in 1..Len(s) : s[i] \in cs

Map(s, Op(_)) == [i \in 1..Len(s) |-> Op(s[i])]

-----------------------------------------------------------------------------
(* Markup chunks written by the renderer (one symbol each).                *)

Spaces(n) == [i \in 1..n |-> SP]

RECURSIVE ToDigits(_)
\* Decimal digits of a natural number, as a template literal prints it.
ToDigits(n) ==
    LET d == <<"0", "1", "2", "3", "4", "5", "6", "7", "8", "9">>
    IN  IF n < 10 THEN <<d[n + 1]>> ELSE ToDigits(n \div 10) \o <<d[(n % 10) + 1]>>

\* The value null of currentDay, and its conversion to a string / property key.
Null == <<"null">>
ToStr(v) == IF v = Null THEN <<"n", "u", "l", "l">> ELSE v

toLowerCase(s) ==
    LET up == <<"A", "B", "C", "D", "E", "F", "G", "H", "I", "J", "K", "L", "M",
                "N", "O", "P", "Q", "R", "S", "T", "U", "V", "W", "X", "Y", "Z">>
        lo == <<"a", "b", "c", "d", "e", "f", "g", "h", "i", "j", "k", "l", "m",
                "n", "o", "p", "q", "r", "s", "t", "u", "v", "w", "x", "y", "z">>
        low(c) == IF \E i \in 1..26 : up[i] = c
                  THEN lo[CHOOSE i \in 1..26 : up[i] = c] ELSE c
    IN  [i \in 1..Len(s) |-> low(s[i])]

-----------------------------------------------------------------------------
(* Stage 1: fenced code blocks, replace of three backquotes, ([\s\S]*?),  *)
(* three backquotes, flags gs.                                             *)

Fence == <<TICK, TICK, TICK>>

\* The template literal the callback returns for one match.
CodeBlockHtml(codeContent) ==
    LET cleanedCode == trim(codeContent)
    IN  <<NL>> \o Spaces(12) \o <<"<div>">> \o
        <<NL>> \o Spaces(16) \o <<"<pre>", "<code>">> \o cleanedCode \o <<"</code>", "</pre>">> \o
        <<NL>> \o Spaces(12) \o <<"</div>">> \o
        <<NL>> \o Spaces(8)

\* replaceFences with a greedy group: the first fence closes at the last one.
replaceFences_Greedy(s) ==
    LET p == Find(s, Fence, 1)
        q == Greatest({i \in (p + 3)..Len(s) : HasAt(s, Fence, i)})
    IN  IF p = 0 \/ q = 0 THEN s
        ELSE SubSeq(s, 1, p - 1) \o CodeBlockHtml(SubSeq(s, p + 3, q - 1)) \o Tail0(s, q + 3)

RECURSIVE replaceFences(_)
RECURSIVE replaceFenceAt(_, _, _)
\* The opening fence at p and the nearest closing fence at q (0 when none).
replaceFenceAt(s, p, q) ==
    IF p = 0 \/ q = 0 THEN s
    ELSE SubSeq(s, 1, p - 1) \o CodeBlockHtml(SubSeq(s, p + 3, q - 1))
             \o replaceFences(Tail0(s, q + 3))

replaceFenceFrom(s, p) == replaceFenceAt(s, p, IF p = 0 THEN 0 ELSE Find(s, Fence, p + 3))

replaceFences(s) == replaceFenceFrom(s, Find(s, Fence, 1))

-----------------------------------------------------------------------------
(* Stage 2: tables.                                                        *)
(* tableRegex = /(\|.*?\|[\r\n]+)([\s\S]*?)(?=\n[ \t]*[^|]|$)/g            *)

\* \|.*?\| then [\r\n]: from e on, on the same line, the first '|' that a line
\* terminator follows; 0 when the line has none.
HeaderClose(s, e) ==
    Least({i \in e..Len(s) :
              /\ s[i] = PIPE /\ i + 1 <= Len(s) /\ s[i + 1] \in LineTerminators
              /\ \A j \in e..(i - 1) : s[j] \notin LineTerminators})

\* Leftmost index >= from where group 1 can start.
TableStart(s, from) ==
    FirstIdx(LAMBDA i : s[i] = PIPE /\ HeaderClose(s, i + 1) # 0, from, Len(s))

\* Lazy group 2: the first index >= k where the lookahead (?=\n[ \t]*[^|]|$)
\* holds; [^|] also takes a blank or a newline, so the lookahead is a newline
\* followed by any character but '|', or the end of the text.
ContentEnd(s, k) ==
    OrElse(FirstIdx(LAMBDA i : s[i] = NL /\ i + 1 <= Len(s) /\ s[i + 1] # PIPE, k, Len(s)),
           Len(s) + 1)

\* The match whose group 1 spans p..c-1 and whose group 2 spans c..k-1.
TableMatch(s, p, c, k) ==
    [found |-> TRUE, start |-> p, end |-> k,
     headerLine |-> SubSeq(s, p, c - 1), contentBlock |-> SubSeq(s, c, k - 1)]

\* Group 2 of the match whose group 1 spans p..c-1.
TableMatchContent(s, p, c) == TableMatch(s, p, c, ContentEnd(s, c))

\* The match that starts at p (0: no match): [\r\n]+ takes every line
\* terminator after the closing pipe of the header.
TableMatchAt(s, p) ==
    IF p = 0 THEN [found |-> FALSE, start |-> 0, end |-> 0,
                   headerLine |-> <<>>, contentBlock |-> <<>>]
    ELSE TableMatchContent(s, p, SkipFrom(s, LineTerminators, HeaderClose(s, p + 1) + 1))

\* The first match of tableRegex in s: its span and two groups.
tableRegex(s) == TableMatchAt(s, TableStart(s, 1))

\* headerLine.split('|').map(trim).filter(h => h && !h.match(/^[-: ]+$/))
headers(headerLine) ==
    SelectSeq(Map(split(headerLine, PIPE), trim),
              LAMBDA h : h # <<>> /\ ~AllIn(h, SeparatorChars))

\* isTimetable without toLowerCase: the first header compared as written.
isTimetable_CaseSensitive(hs) == Len(hs) >= 4 /\ hs[1] = <<"d", "a", "y">>

isTimetable(hs) == Len(hs) >= 4 /\ toLowerCase(hs[1]) = <<"d", "a", "y">>

\* r has a pipe at index a.
PipeAt(r, a) == a >= 1 /\ a <= Len(r) /\ r[a] = PIPE

\* \|[ -:]*\| from the pipe at index a on: the index of the closing pipe, 0
\* when the pattern does not match there.
NextFilterPipe(r, a) ==
    IF PipeAt(r, a) /\ PipeAt(r, SkipFrom(r, RowFilterClass, a + 1))
    THEN SkipFrom(r, RowFilterClass, a + 1)
    ELSE 0

\* r.match(/^\|[ -:]*\|[ -:]*\|/)
MatchesRowFilter(r) == NextFilterPipe(r, NextFilterPipe(r, 1)) # 0

\* The test of a trimmed line.
IsDataRowTrimmed(r) == StartsWith(r, <<PIPE>>) /\ ~MatchesRowFilter(r)

\* The condition both row loops put on a line of the content block.
IsDataRow(row) == IsDataRowTrimmed(trim(row))

HeaderRowHtml(hs) ==
    <<"<table>", "<thead>", "<tr>">> \o join(Map(hs, LAMBDA h : <<"<th>">> \o h \o <<"</th>">>))
        \o <<"</tr>", "</thead>", "<tbody>">>

DataCellsHtml(cs) == join(Map(cs, LAMBDA c : <<"<td>">> \o c \o <<"</td>">>))

\* The forEach body of the simple branch: what one line appends.
SimpleCellsHtml(cells) ==
    IF Len(cells) > 0 THEN <<"<tr>">> \o DataCellsHtml(cells) \o <<"</tr>">> ELSE <<>>

SimpleRowHtml(row) ==
    IF IsDataRow(row)
    THEN SimpleCellsHtml(SelectSeq(Map(split(row, PIPE), trim), LAMBDA c : c # <<>>))
    ELSE <<>>

simpleTableHtml(hs, contentBlock) ==
    HeaderRowHtml(hs)
        \o join(Map(split(trim(contentBlock), NL), SimpleRowHtml))
        \o <<"</tbody>", "</table>">>

-----------------------------------------------------------------------------
(* Stage 2, timetable branch: row spans and cell alignment.                *)

DayPrefix == <<"D", "a", "y">>

\* The condition of the cell-shift fix.
ShiftApplies(cell_Day, cell_Subject, cell_Chapters, cell_Time) ==
    /\ ~StartsWith(cell_Day, DayPrefix)
    /\ AllIn(cell_Subject, DigitsAndPeriods)
    /\ cell_Chapters # <<>>
    /\ cell_Time = <<>>

\* resolveDay without the else branch: a row keeps its own day cell.
resolveDay_NoCarry(cell_Day, currentDay) == cell_Day

\* "Determine Day for rowspan grouping": the value of currentDay, and of
\* cell_Day, after the if/else.
resolveDay(cell_Day, currentDay) ==
    IF StartsWith(cell_Day, DayPrefix) THEN cell_Day ELSE currentDay

\* "Grouping logic for rowspan": rowGroups after a row of key k was pushed at
\* (zero-based) index idx.
groupRow(rowGroups, k, idx) ==
    IF k \in DOMAIN rowGroups
    THEN [rowGroups EXCEPT ![k].count = @ + 1]
    ELSE [x \in DOMAIN rowGroups \cup {k} |->
             IF x = k THEN [count |-> 1, firstRowIndex |-> idx] ELSE rowGroups[x]]

\* cells.filter((c, i) => i > 0 && i < cells.length - 1): the tokens between
\* the outer pipes.
innerCells(cells) == SubSeq(cells, 2, Len(cells) - 1)

rawCells(row) == innerCells(Map(split(row, PIPE), trim))

\* while (rawCells.length < 4) rawCells.push('')
padCells(raw) == IF Len(raw) < 4 THEN raw \o [i \in 1..(4 - Len(raw)) |-> <<>>] ELSE raw

\* The cells Subject, Chapters, Time after the cell-shift fix.
subjectCells(cell_Day, cell_Subject, cell_Chapters, cell_Time) ==
    IF ShiftApplies(cell_Day, cell_Subject, cell_Chapters, cell_Time)
    THEN << <<>>, cell_Subject, cell_Chapters >>
    ELSE << cell_Subject, cell_Chapters, cell_Time >>

\* tableData.push(rowObject), the grouping logic, and the new currentDay.
pushRow(acc, cell_Day, cells) ==
    [tableData |-> Append(acc.tableData, [day |-> cell_Day, subjectCells |-> cells]),
     rowGroups |-> groupRow(acc.rowGroups, ToStr(cell_Day), Len(acc.tableData)),
     currentDay |-> cell_Day]

\* The body of if (rawCells.length >= 3), on the padded cells.
parseCells(acc, raw) ==
    pushRow(acc, resolveDay(raw[1], acc.currentDay), subjectCells(raw[1], raw[2], raw[3], raw[4]))

\* parseRawCells with the day resolved before the length test: a short row
\* still sets currentDay.
parseRawCells_KeyFirst(acc, raw) ==
    IF Len(raw) >= 3 THEN parseCells(acc, padCells(raw))
    ELSE IF Len(raw) >= 1 THEN [acc EXCEPT !.currentDay = resolveDay(raw[1], @)]
    ELSE acc

parseRawCells(acc, raw) == IF Len(raw) >= 3 THEN parseCells(acc, padCells(raw)) ELSE acc

\* The forEach body of the timetable branch on one line of the content block;
\* acc holds tableData, rowGroups and currentDay.
parseRow(acc, row) == IF IsDataRow(row) THEN parseRawCells(acc, rawCells(row)) ELSE acc

RECURSIVE parseRows(_, _)
parseRows(acc, rows) ==
    IF rows = <<>> THEN acc ELSE parseRows(parseRow(acc, Head(rows)), Tail(rows))

\* tableData, rowGroups and currentDay after the parse of a content block.
parseContent(contentBlock) ==
    parseRows([tableData |-> <<>>, rowGroups |-> <<>>, currentDay |-> Null],
              split(trim(contentBlock), NL))

\* "Only render the 'Day' cell for the first row of its group".
dayCellHtml(rowData, group, index) ==
    IF index = group.firstRowIndex
    THEN <<"<td rowspan=">> \o ToDigits(group.count) \o <<" style=day>">>
             \o ToStr(rowData.day) \o <<"</td>">>
    ELSE <<>>

\* The forEach body that renders row index (zero-based) of tableData.
rowHtml(rowData, group, index) ==
    <<"<tr>">> \o dayCellHtml(rowData, group, index)
        \o DataCellsHtml(rowData.subjectCells) \o <<"</tr>">>

\* The forEach body that renders row index (zero-based) of tableData.
timetableRowHtml(tableData, rowGroups, index) ==
    rowHtml(tableData[index + 1], rowGroups[ToStr(tableData[index + 1].day)], index)

\* "Generate HTML Table with Rowspan", from the parsed tableData and rowGroups.
timetableRowsHtml(hs, parsed) ==
    HeaderRowHtml(hs)
        \o join([i \in 1..Len(parsed.tableData) |->
                    timetableRowHtml(parsed.tableData, parsed.rowGroups, i - 1)])
        \o <<"</tbody>", "</table>">>

timetableHtml(hs, contentBlock) == timetableRowsHtml(hs, parseContent(contentBlock))

\* The callback after "1. Process Header Line".
tableHtmlFor(hs, contentBlock) ==
    IF ~isTimetable(hs) THEN simpleTableHtml(hs, contentBlock)
    ELSE timetableHtml(hs, contentBlock)

\* The replace callback: the markup that takes the place of one match.
tableHtml(headerLine, contentBlock) == tableHtmlFor(headers(headerLine), contentBlock)

\* The locals of the callback for one match; the simple branch never creates
\* tableData, rowGroups and currentDay, and they are shown as initialised.
localsOf(hs, timetable, parsed) ==
    [headers |-> hs, isTimetable |-> timetable, tableData |-> parsed.tableData,
     rowGroups |-> parsed.rowGroups, currentDay |-> parsed.currentDay]

tableLocalsFor(hs, timetable, contentBlock) ==
    localsOf(hs, timetable,
             IF timetable THEN parseContent(contentBlock)
             ELSE [tableData |-> <<>>, rowGroups |-> <<>>, currentDay |-> Null])

tableLocalsOf(hs, contentBlock) == tableLocalsFor(hs, isTimetable(hs), contentBlock)

tableLocals(headerLine, contentBlock) == tableLocalsOf(headers(headerLine), contentBlock)

RECURSIVE tableMatches(_)
RECURSIVE tableMatchesFrom(_, _)
\* The locals of every match of tableRegex in s, left to right; m is the
\* first match.
tableMatchesFrom(s, m) ==
    IF ~m.found THEN <<>>
    ELSE <<tableLocals(m.headerLine, m.contentBlock)>> \o tableMatches(Tail0(s, m.end))

tableMatches(s) == tableMatchesFrom(s, tableRegex(s))

RECURSIVE replaceTables(_)
RECURSIVE replaceTablesFrom(_, _)
\* html.replace(tableRegex, callback); m is the first match.
replaceTablesFrom(s, m) ==
    IF ~m.found THEN s
    ELSE SubSeq(s, 1, m.start - 1) \o tableHtml(m.headerLine, m.contentBlock)
             \o replaceTables(Tail0(s, m.end))

replaceTables(s) == replaceTablesFrom(s, tableRegex(s))

-----------------------------------------------------------------------------
(* Stage 3: headings, bold, italic, rule, lists.                           *)

LineEnd(s, from) ==
    LET e == IndexFrom(s, LineTerminators, from) IN IF e = 0 THEN Len(s) + 1 ELSE e

RECURSIVE replaceHeading(_, _, _, _)
\* html.replace(/<marker>(.*)/g, open $1 close)
replaceHeading(s, marker, open, close) ==
    LET p == Find(s, marker, 1)
        e == LineEnd(s, p + Len(marker))
    IN  IF p = 0 THEN s
        ELSE SubSeq(s, 1, p - 1) \o <<open>> \o SubSeq(s, p + Len(marker), e - 1) \o <<close>>
                 \o replaceHeading(Tail0(s, e), marker, open, close)

\* Lazy (.*?) then the closing delimiter d: the first index >= q, reached
\* without crossing a line terminator, where s has d; 0 when none.
CloseOnLine(s, d, q) ==
    LET k == FirstIdx(LAMBDA i : HasAt(s, d, i) \/ s[i] \in LineTerminators, q, Len(s))
    IN  IF k # 0 /\ HasAt(s, d, k) THEN k ELSE 0

\* Leftmost index >= p where d opens a pair that closes on the same line.
OpenFrom(s, d, p) ==
    FirstIdx(LAMBDA i : HasAt(s, d, i) /\ CloseOnLine(s, d, i + Len(d)) # 0, p, Len(s))

RECURSIVE replaceEmphasis(_, _, _, _)
\* html.replace(/<d>(.*?)<d>/g, open $1 close)
replaceEmphasis(s, d, open, close) ==
    LET p == OpenFrom(s, d, 1)
        q == CloseOnLine(s, d, p + Len(d))
    IN  IF p = 0 THEN s
        ELSE SubSeq(s, 1, p - 1) \o <<open>> \o SubSeq(s, p + Len(d), q - 1) \o <<close>>
                 \o replaceEmphasis(Tail0(s, q + Len(d)), d, open, close)

\* ^\*<blank> with the m flag: the first index >= from that starts a line and
\* holds a star and a blank; 0 when none.
BulletFrom(s, from) ==
    FirstIdx(LAMBDA i : (i = 1 \/ s[i - 1] \in LineTerminators) /\ HasAt(s, <<STAR, SP>>, i),
             from, Len(s))

RECURSIVE replaceBullets(_, _)
\* html.replace(/^\* (.*)/gm, '<li>$1</li>'), from index i on.
replaceBullets(s, i) ==
    LET p == BulletFrom(s, i)
        e == LineEnd(s, p + 2)
    IN  IF p = 0 THEN Tail0(s, i)
        ELSE SubSeq(s, i, p - 1) \o <<"<li>">> \o SubSeq(s, p + 2, e - 1) \o <<"</li>">>
                 \o replaceBullets(s, e)

RECURSIVE wrapItems(_)
\* html.replace(/(<li>.*?<\/li>)/gs, '<ul>$1</ul>')
wrapItems(s) ==
    LET p == IndexFrom(s, {"<li>"}, 1)
        q == IndexFrom(s, {"</li>"}, p + 1)
    IN  IF p = 0 \/ q = 0 THEN s
        ELSE SubSeq(s, 1, p - 1) \o <<"<ul>">> \o SubSeq(s, p, q) \o <<"</ul>">>
                 \o wrapItems(Tail0(s, q + 1))

\* The if (html.includes('<li>')) block.
wrapLists(s) ==
    IF IndexFrom(s, {"<li>"}, 1) # 0
    THEN replaceAll(wrapItems(s), <<"</ul>", "<ul>">>, <<>>)
    ELSE s

-----------------------------------------------------------------------------
(* The statements in sequence: the html the renderer returns for a text.   *)

InlineFormats(s) ==
    replaceEmphasis(
        replaceEmphasis(
            replaceHeading(replaceHeading(s, <<HASH, HASH, SP>>, "<h4>", "</h4>"),
                           <<HASH, SP>>, "<h3>", "</h3>"),
            <<STAR, STAR>>, "<strong>", "</strong>"),
        <<STAR>>, "<em>", "</em>")

BlockFormats(s) == wrapLists(replaceBullets(replaceAll(s, <<DASH, DASH, DASH>>, <<"<hr>">>), 1))

Normalise(s) == replaceAll(replaceAll(s, <<NL, NL>>, <<"<p></p>">>), <<NL>>, <<"<br>">>)

Pipeline(text) == Normalise(BlockFormats(InlineFormats(replaceTables(replaceFences(text)))))

-----------------------------------------------------------------------------
(* getYouTubeEmbedUrl (VideoLearningHub).  new URL(url) is modelled on     *)
(* texts of the form [scheme "://"] host [path] ["?" query], with no port, *)
(* user info, fragment or escape: the parse fails when the text has no      *)
(* http(s) scheme or no host, and the host name is lower-cased.             *)

SchemePrefixes == {<<"h", "t", "t", "p", "s", ":", "/", "/">>, <<"h", "t", "t", "p", ":", "/", "/">>}

\* The length of the scheme prefix of url; 0 when it has none.
SchemeLen(url) ==
    IF \E p \in SchemePrefixes : StartsWith(url, p)
    THEN Len(CHOOSE p \in SchemePrefixes : StartsWith(url, p))
    ELSE 0

\* The index after the host: the first '/' or '?' after the scheme, or the end.
HostEnd(url) == OrElse(IndexFrom(url, {"/", "?"}, SchemeLen(url) + 1), Len(url) + 1)

\* The index of the '?' that opens the query; Len(url)+1 when there is none.
QueryStart(url) == OrElse(IndexFrom(url, {"?"}, SchemeLen(url) + 1), Len(url) + 1)

\* new URL(url) returns (TRUE) or throws a TypeError (FALSE).
IsValidUrl(url) == SchemeLen(url) > 0 /\ HostEnd(url) > SchemeLen(url) + 1

\* urlObj.hostname
hostname(url) == toLowerCase(SubSeq(url, SchemeLen(url) + 1, HostEnd(url) - 1))

\* urlObj.pathname: '/' when the text has no path.
pathname(url) ==
    IF HostEnd(url) >= QueryStart(url) THEN <<"/">>
    ELSE SubSeq(url, HostEnd(url), QueryStart(url) - 1)

\* One name=value pair as searchParams holds it.
ParamOf(pair) ==
    [name |-> SubSeq(pair, 1, OrElse(IndexFrom(pair, {"="}, 1), Len(pair) + 1) - 1),
     value |-> Tail0(pair, OrElse(IndexFrom(pair, {"="}, 1), Len(pair) + 1) + 1)]

\* urlObj.searchParams: the pairs of the query, in order.
searchParams(url) ==
    Map(SelectSeq(split(Tail0(url, QueryStart(url) + 1), "&"), LAMBDA p : p # <<>>), ParamOf)

\* searchParams.has(name)
has(params, name) == \E i \in 1..Len(params) : params[i].name = name

\* searchParams.get(name): the value of the first pair of that name.
get(params, name) == params[Least({i \in 1..Len(params) : params[i].name = name})].value

\* String.prototype.includes
includes(s, p) == Find(s, p, 1) # 0

EmbedPrefix == <<"h", "t", "t", "p", "s", ":", "/", "/", "w", "w", "w", ".", "y", "o", "u", "t", "u", "b", "e", ".", "c", "o", "m", "/", "e", "m", "b", "e", "d", "/">>

\* The return value of the last statement.
FallbackUrl == EmbedPrefix \o <<"d", "Q", "w", "4", "w", "9", "W", "g", "X", "c", "Q">>

wYoutubeCom == <<"y", "o", "u", "t", "u", "b", "e", ".", "c", "o", "m">>
wYoutuBe == <<"y", "o", "u", "t", "u", ".", "b", "e">>

\* The try block on a url that parsed.
embedUrlOf(host, params, path) ==
    IF includes(host, wYoutubeCom) /\ has(params, <<"v">>)
    THEN EmbedPrefix \o get(params, <<"v">>)
    ELSE IF host = wYoutuBe
    THEN EmbedPrefix \o Tail0(path, 2)
    ELSE FallbackUrl

\* A TypeError of new URL is caught and logged; the fallback is returned.
getYouTubeEmbedUrl(url) ==
    IF IsValidUrl(url)
    THEN embedUrlOf(hostname(url), searchParams(url), pathname(url))
    ELSE FallbackUrl

-----------------------------------------------------------------------------
(* Inputs: the content prop.  A string content is built from lines; a     *)
(* table line is built from its cells, each written with a blank on either *)
(* side, as the generation service writes them.                            *)

MaxRows == 3
MaxLines == 3

RECURSIVE SeqsUpTo(_, _)
\* The sequences of at most n elements of S.
SeqsUpTo(S, n) ==
    IF n = 0 THEN {<<>>}
    ELSE LET shorter == SeqsUpTo(S, n - 1)
         IN  shorter \cup {Append(q, x) : q \in {r \in shorter : Len(r) = n - 1}, x \in S}

RECURSIVE Lines(_)
\* The lines joined by newlines.
Lines(ls) ==
    IF ls = <<>> THEN <<>>
    ELSE IF Len(ls) = 1 THEN ls[1]
    ELSE ls[1] \o <<NL>> \o Lines(Tail(ls))

\* A table line of the given cells.
Row(cs) == <<PIPE>> \o join(Map(cs, LAMBDA c : <<SP>> \o c \o <<SP, PIPE>>))

Str(text) == [type |-> "string", text |-> text]

\* Values of content that are not strings: null, undefined, the number 42,
\* an object, the array ['# x']; text is the value converted to a string.
NonStrings ==
    { [type |-> "null", text |-> <<"n", "u", "l", "l">>],
      [type |-> "undefined", text |-> <<"u", "n", "d", "e", "f", "i", "n", "e", "d">>],
      [type |-> "number", text |-> <<"4", "2">>],
      [type |-> "object", text |-> <<"[", "o", "b", "j", "e", "c", "t", " ", "O", "b", "j", "e", "c", "t", "]">>],
      [type |-> "array", text |-> <<HASH, SP, "x">>] }

wDay1 == <<"D", "a", "y", " ", "1">>
wDay2 == <<"D", "a", "y", " ", "2">>
wDay3 == <<"D", "a", "y", " ", "3">>
wMath == <<"M", "a", "t", "h">>
wScience == <<"S", "c", "i", "e", "n", "c", "e">>
wArt == <<"A", "r", "t">>
wPE == <<"P", "E">>
w1to2 == <<"1", "-", "2">>
w3 == <<"3">>
w4 == <<"4">>
w5 == <<"5">>
w2 == <<"2">>
w9am == <<"9", "a", "m">>
w10am == <<"1", "0", "a", "m">>
w1pm == <<"1", "p", "m">>
wChapter13 == <<"C", "h", "a", "p", "t", "e", "r", " ", "1", "-", "3">>
wChapter4 == <<"C", "h", "a", "p", "t", "e", "r", " ", "4">>
wMon == <<"M", "o", "n">>
wx == <<"x">>
wDashes == <<"-", "-", "-">>
wDay == <<"D", "a", "y">>
wDAY == <<"D", "A", "Y">>
wDays == <<"D", "a", "y", "s">>
wSubject == <<"S", "u", "b", "j", "e", "c", "t">>
wChapters == <<"C", "h", "a", "p", "t", "e", "r", "s">>
wTime == <<"T", "i", "m", "e">>
wRoom == <<"R", "o", "o", "m">>

TimetableHeader == Row(<<wDay, wSubject, wChapters, wTime>>)

\* The kinds of content line of a timetable.
TimetableLines ==
    { Row(<<wDay1, wMath, w1to2, w9am>>),
      Row(<<wDay2, wArt, w4, w1pm>>),
      Row(<<<<>>, wScience, w3, w10am>>),
      Row(<<<<>>, w3, wChapter13, <<>>>>),
      Row(<<wMon, w2, wChapter4, <<>>>>),
      Row(<<wDay3, wPE, w5>>),
      Row(<<<<>>, wScience, w3, w10am, wx>>),
      Row(<<wDay2, wArt>>),
      Row(<<wDashes, wDashes, wDashes, wDashes>>) }

TimetableDocs ==
    {Str(Lines(<<TimetableHeader>> \o rows)) : rows \in SeqsUpTo(TimetableLines, MaxRows)}

wy == <<"y">>
wc == <<"c">>
wd == <<"d">>
w1 == <<"1">>
wfoo == <<"f", "o", "o">>

\* Tables that are no timetable: a header of one or two labels, then lines
\* that are rows, separator lines, running text or blank.
SimpleHeaders == {Row(<<wx>>), Row(<<wx, wy>>)}

SimpleLines ==
    { Row(<<wc, wd>>),
      Row(<<w1, w2>>),
      Row(<<wc, <<>>, wd>>),
      Row(<<wDashes, wDashes>>),
      Row(<<wDashes>>),
      wfoo,
      <<>> }

SimpleDocs ==
    {Str(Lines(<<h>> \o ls)) : h \in SimpleHeaders, ls \in SeqsUpTo(SimpleLines, MaxRows)}

\* Header lines on either side of the timetable test, over timetable rows.
ClassifierHeaders ==
    { Row(<<wDay, wSubject, wChapters, wTime>>),
      Row(<<wDAY, wSubject, wChapters, wTime>>),
      Row(<<wDay, wSubject, wChapters, wTime, wRoom>>),
      Row(<<wDay, <<>>, wSubject, wChapters, wTime>>),
      Row(<<wDay, wSubject, wChapters>>),
      Row(<<wDay, wSubject, wDashes, wTime>>),
      Row(<<wDays, wSubject, wChapters, wTime>>),
      Row(<<wSubject, wDay, wChapters, wTime>>) }

ClassifierLines ==
    { Row(<<wDay1, wMath, w1to2, w9am>>),
      Row(<<wDay3, wPE, w5>>),
      Row(<<wMon, w2, wChapter4, <<>>>>) }

ClassifierDocs ==
    {Str(Lines(<<h>> \o ls)) :
        h \in ClassifierHeaders, ls \in SeqsUpTo(ClassifierLines, MaxRows) \ {<<>>}}

MaxNewlines == 4

\* Texts whose lines are separated and followed by runs of newlines.
BreakPieces == {<<>>, <<"x">>, <<STAR, SP, "a">>}

Newlines(n) == [i \in 1..n |-> NL]

BreakDocs ==
    {Str(x \o Newlines(a) \o y \o Newlines(b)) :
        x \in BreakPieces, y \in BreakPieces, a \in 0..MaxNewlines, b \in 0..MaxNewlines}

\* Running text: headings, emphasis, bullets, fences, blank lines.
TextLines ==
    { <<TICK, TICK, TICK>>,
      <<HASH, SP, "x">>,
      <<STAR, STAR, "b", STAR, STAR>>,
      <<STAR, SP, "a">>,
      <<STAR, SP, "b">>,
      <<STAR, SP, "b", SP, STAR, "c", STAR>>,
      <<"x">>,
      <<>> }

TextDocs == {Str(Lines(ls)) : ls \in SeqsUpTo(TextLines, MaxLines)}

\* Values of result.video_url: a scheme or none, a host, a path, a query; and
\* texts that are no URL (undefined is converted to the text 'undefined').
UrlSchemes == {<<>>, <<"h", "t", "t", "p", "s", ":", "/", "/">>}

UrlHosts ==
    { <<"w", "w", "w", ".", "y", "o", "u", "t", "u", "b", "e", ".", "c", "o", "m">>,
      <<"m", ".", "Y", "o", "u", "T", "u", "b", "e", ".", "c", "o", "m">>,
      <<"y", "o", "u", "t", "u", ".", "b", "e">>,
      <<"w", "w", "w", ".", "y", "o", "u", "t", "u", ".", "b", "e">>,
      <<"e", "x", "a", "m", "p", "l", "e", ".", "c", "o", "m">> }

UrlPaths == {<<>>, <<"/">>, <<"/", "w", "a", "t", "c", "h">>, <<"/", "a", "b", "c">>}

UrlQueries ==
    { <<>>,
      <<"?", "v", "=">>,
      <<"?", "v", "=", "a", "b", "c">>,
      <<"?", "t", "=", "1">>,
      <<"?", "t", "=", "1", "&", "v", "=", "x", "y", "z">>,
      <<"?", "v">> }

NotUrls == {<<>>, <<"u", "n", "d", "e", "f", "i", "n", "e", "d">>, <<"h", "t", "t", "p", "s", ":", "/", "/">>, <<"n", "o", "t", " ", "a", " ", "u", "r", "l">>}

VideoUrls ==
    {s \o h \o p \o q : s \in UrlSchemes, h \in UrlHosts, p \in UrlPaths, q \in UrlQueries}
        \cup NotUrls

-----------------------------------------------------------------------------
(* The renderer, one action per statement of the pipeline.                 *)

\* The state on entry, let html = content, for a content of the set Docs.
InitOn(Docs) ==
    /\ content \in Docs \cup NonStrings
    /\ html = content.text
    /\ tables = <<>>
    /\ pc = "start"
    /\ video_url = Null
    /\ embedUrl = Null

InitTimetable == InitOn(TimetableDocs)

InitTables == InitOn(SimpleDocs \cup ClassifierDocs)

InitText == InitOn(TextDocs)

InitBreaks == InitOn(BreakDocs)

Init == InitOn(TimetableDocs \cup SimpleDocs \cup ClassifierDocs \cup TextDocs)

\* The guard with a truthiness test, if (!html), in place of the typeof test.
IsString_Truthy(c) == c.type \notin {"null", "undefined"}

\* typeof html === 'string'
IsString(c) == c.type = "string"

\* if (typeof html !== 'string') return <div className="markdown-content"></div>
ReturnEmpty ==
    /\ pc = "start" /\ ~IsString(content)
    /\ html' = <<>>
    /\ pc' = "done"
    /\ UNCHANGED <<content, tables, video_url, embedUrl>>

FencedCodeBlocks ==
    /\ pc = "start" /\ IsString(content)
    /\ html' = replaceFences(html)
    /\ pc' = "tables"
    /\ UNCHANGED <<content, tables, video_url, embedUrl>>

Tables ==
    /\ pc = "tables"
    /\ html' = replaceTables(html)
    /\ tables' = tableMatches(html)
    /\ pc' = "h4"
    /\ UNCHANGED <<content, video_url, embedUrl>>

SubHeadings ==
    /\ pc = "h4"
    /\ html' = replaceHeading(html, <<HASH, HASH, SP>>, "<h4>", "</h4>")
    /\ pc' = "h3"
    /\ UNCHANGED <<content, tables, video_url, embedUrl>>

Headings ==
    /\ pc = "h3"
    /\ html' = replaceHeading(html, <<HASH, SP>>, "<h3>", "</h3>")
    /\ pc' = "strong"
    /\ UNCHANGED <<content, tables, video_url, embedUrl>>

Bold ==
    /\ pc = "strong"
    /\ html' = replaceEmphasis(html, <<STAR, STAR>>, "<strong>", "</strong>")
    /\ pc' = "em"
    /\ UNCHANGED <<content, tables, video_url, embedUrl>>

Italic ==
    /\ pc = "em"
    /\ html' = replaceEmphasis(html, <<STAR>>, "<em>", "</em>")
    /\ pc' = "hr"
    /\ UNCHANGED <<content, tables, video_url, embedUrl>>

Rules ==
    /\ pc = "hr"
    /\ html' = replaceAll(html, <<DASH, DASH, DASH>>, <<"<hr>">>)
    /\ pc' = "li"
    /\ UNCHANGED <<content, tables, video_url, embedUrl>>

ListItems ==
    /\ pc = "li"
    /\ html' = replaceBullets(html, 1)
    /\ pc' = "ul"
    /\ UNCHANGED <<content, tables, video_url, embedUrl>>

ListContainers ==
    /\ pc = "ul"
    /\ html' = wrapLists(html)
    /\ pc' = "p"
    /\ UNCHANGED <<content, tables, video_url, embedUrl>>

Paragraphs ==
    /\ pc = "p"
    /\ html' = replaceAll(html, <<NL, NL>>, <<"<p></p>">>)
    /\ pc' = "br"
    /\ UNCHANGED <<content, tables, video_url, embedUrl>>

\* The last replace and the return of the element that carries html.
LineBreaks ==
    /\ pc = "br"
    /\ html' = replaceAll(html, <<NL>>, <<"<br>">>)
    /\ pc' = "done"
    /\ UNCHANGED <<content, tables, video_url, embedUrl>>

\* const embedUrl = result ? getYouTubeEmbedUrl(result.video_url) : null, for
\* a result that is present.
GetYouTubeEmbedUrl ==
    /\ pc = "embed"
    /\ embedUrl' = getYouTubeEmbedUrl(video_url)
    /\ pc' = "embedded"
    /\ UNCHANGED <<content, html, tables, video_url>>

\* VideoLearningHub before the embed URL of a result is computed.
InitVideo ==
    /\ content = Str(<<>>)
    /\ html = <<>>
    /\ tables = <<>>
    /\ pc = "embed"
    /\ video_url \in VideoUrls
    /\ embedUrl = Null

Next ==
    \/ ReturnEmpty
    \/ FencedCodeBlocks
    \/ Tables
    \/ SubHeadings
    \/ Headings
    \/ Bold
    \/ Italic
    \/ Rules
    \/ ListItems
    \/ ListContainers
    \/ Paragraphs
    \/ LineBreaks

Spec == Init /\ [][Next]_vars

\* The renderer on timetables, on other tables, and on running text.
SpecTimetable == InitTimetable /\ [][Next]_vars

SpecTables == InitTables /\ [][Next]_vars

SpecText == InitText /\ [][Next]_vars

\* The renderer on texts with runs of newlines.
SpecBreaks == InitBreaks /\ [][Next]_vars

\* The URL mapper alone.
NextVideo == GetYouTubeEmbedUrl

SpecVideo == InitVideo /\ [][NextVideo]_vars

-----------------------------------------------------------------------------
(* Vocabulary of the properties: the source text read line by line, and    *)
(* the rendered fragment read row by row.                                  *)

Count(s, x) == Cardinality({i \in 1..Len(s) : s[i] = x})

Occurrences(s, p) == Cardinality({i \in 1..Len(s) : HasAt(s, p, i)})

Positions(s, P(_)) == SelectSeq([i \in 1..Len(s) |-> i], P)

SrcLines == split(content.text, NL)

SrcHeader == SrcLines[1]

\* The lines after the first line.
SrcContent == Tail(SrcLines)

IsPipeLine(l) == StartsWith(trim(l), <<PIPE>>)

\* Only dashes, colons, spaces and pipes.
IsSeparatorLine(l) == IsPipeLine(l) /\ AllIn(l, {DASH, ":", SP, PIPE})

\* The tokens between the outer pipes of a line, trimmed.
Tokens(l) ==
    LET parts == split(l, PIPE)
    IN  [i \in 1..(Len(parts) - 2) |-> trim(parts[i + 1])]

NonEmpty(ts) == SelectSeq(ts, LAMBDA t : t # <<>>)

\* The header list: the header tokens that are not empty and not of the
\* separator pattern.
HeaderLabels(l) == SelectSeq(Tokens(l), LAMBDA t : t # <<>> /\ ~AllIn(t, {DASH, ":", SP}))

StartsDay(t) == StartsWith(t, <<"D", "a", "y">>)

\* The body rows of the fragment: every <tr> outside <thead>.  A row is its
\* row span (0 when it has no leading key cell), the text of the leading cell
\* and the texts of its data cells.
RenderedRow(h, t) ==
    LET e == IndexFrom(h, {"</tr>"}, t)
        seg == SubSeq(h, t + 1, e - 1)
        pieces == SelectSeq(split(seg, "</td>"), LAMBDA c : c # <<>>)
        lead == pieces # <<>> /\ pieces[1][1] = "<td rowspan="
        k == IndexFrom(pieces[1], {" style=day>"}, 1)
    IN  [span |-> IF lead THEN CHOOSE n \in 0..99 : ToDigits(n) = SubSeq(pieces[1], 2, k - 1)
                  ELSE 0,
         key |-> IF lead THEN Tail0(pieces[1], k + 1) ELSE <<>>,
         cells |-> Map(SelectSeq(pieces, LAMBDA c : c[1] = "<td>"), Tail)]

BodyRows(h) ==
    Map(Positions(h, LAMBDA i : h[i] = "<tr>" /\ (i = 1 \/ h[i - 1] # "<thead>")),
        LAMBDA t : RenderedRow(h, t))

Rendered == pc = "done" /\ content.type = "string"

-----------------------------------------------------------------------------
(* Properties of the rendered fragment.                                    *)

\* The interiors of the terminated fenced blocks of the source, as rendered
\* (trimmed): the fences are paired left to right.
SrcCodeBlocks ==
    LET f == Positions(content.text, LAMBDA i : HasAt(content.text, Fence, i))
    IN  [n \in 1..(Len(f) \div 2) |->
            trim(SubSeq(content.text, f[2 * n - 1] + 3, f[2 * n] - 1))]

\* The fragment holds <code>, the text b, </code>.
HoldsCode(h, b) ==
    \E i \in 1..Len(h) :
        /\ h[i] = "<code>"
        /\ HasAt(h, b \o <<"</code>">>, i + 1)

\* C1 (code-block opacity): the interior of every terminated fenced block of
\* the source appears verbatim, between <code> and </code>, in the final
\* fragment; no later statement substitutes anything inside it.
C1_CodeBlockOpacity ==
    Rendered => \A n \in 1..Len(SrcCodeBlocks) : HoldsCode(html, SrcCodeBlocks[n])

\* The RowRecords of the (first) table of the text.
TableData == tables[1].tableData

RunStart(td, i) == i = 1 \/ td[i].day # td[i - 1].day

\* The length of the run of equal keys that starts at i.
RunLength(td, i) ==
    LET stop == FirstIdx(LAMBDA j : td[j].day # td[i].day, i, Len(td))
    IN  IF stop = 0 THEN Len(td) + 1 - i ELSE stop - i

\* C2 (groups are maximal runs): in a grouped table the first record of each
\* run of consecutive RowRecords with the same key, and only that record,
\* emits a leading key cell, and the cell's row span is the length of the run;
\* a key that recurs after a different key starts a group of its own.
C2_GroupsAreRuns ==
    (Rendered /\ tables # <<>>) =>
        LET rows == BodyRows(html)
        IN  /\ Len(rows) = Len(TableData)
            /\ \A i \in 1..Len(rows) :
                  rows[i].span = IF RunStart(TableData, i) THEN RunLength(TableData, i) ELSE 0

\* A content line that the grouped mode counts as a row: it starts with a
\* pipe, is no separator line and has at least 3 tokens.
IsValidLine(l) == IsPipeLine(l) /\ ~IsSeparatorLine(l) /\ Len(Tokens(l)) >= 3

\* C3 (row conservation): a grouped table emits as many body rows as the
\* source has valid content lines, in source order, whatever the characters
\* of their cells.
C3_RowConservation ==
    Rendered =>
        Len(BodyRows(html)) = Cardinality({i \in 1..Len(SrcContent) : IsValidLine(SrcContent[i])})

\* The content lines that the timetable branch turns into RowRecords.
RecordLines == SelectSeq(SrcContent, LAMBDA l : IsDataRow(l) /\ Len(rawCells(l)) >= 3)

\* The nearest record line before i whose day cell starts with 'Day'; 0 when none.
NearestDay(ls, i) ==
    IF \E j \in 1..(i - 1) : StartsDay(Tokens(ls[j])[1])
    THEN CHOOSE j \in 1..(i - 1) :
            /\ StartsDay(Tokens(ls[j])[1])
            /\ \A m \in (j + 1)..(i - 1) : ~StartsDay(Tokens(ls[m])[1])
    ELSE 0

CarryForwardCase ==
    Lines(<<TimetableHeader, Row(<<wDay1, wMath, w1to2, w9am>>),
            Row(<<<<>>, wScience, w3, w10am>>)>>)

\* C4 (carry-forward): every row of a grouped table whose day cell does not
\* start with 'Day' has the key of the nearest row before it whose day cell
\* starts with 'Day', and emits no key cell of its own; the rows
\* ('Day 1','Math','1-2','9am'), ('','Science','3','10am') render as one group
\* keyed 'Day 1' with row span 2, the day cell emitted on the first row only.
C4_CarryForward ==
    (Rendered /\ tables # <<>>) =>
        LET rows == BodyRows(html)
            ls == RecordLines
        IN  /\ Len(TableData) = Len(ls)
            /\ Len(rows) = Len(ls)
            /\ \A i \in 1..Len(ls) :
                  (~StartsDay(Tokens(ls[i])[1]) /\ NearestDay(ls, i) # 0) =>
                      /\ TableData[i].day = Tokens(ls[NearestDay(ls, i)])[1]
                      /\ rows[i].span = 0
            /\ content.text = CarryForwardCase =>
                  rows = << [span |-> 2, key |-> wDay1, cells |-> <<wMath, w1to2, w9am>>],
                            [span |-> 0, key |-> <<>>, cells |-> <<wScience, w3, w10am>>] >>

C4_Witness ==
    /\ Rendered
    /\ content.text = CarryForwardCase
    /\ Len(TableData) = 2
    /\ TableData[2].day = wDay1
    /\ BodyRows(html)[1].span = 2

\* The four conditions of the shift correction on the tokens of a line.
FourConditions(t) ==
    /\ Len(t) = 4
    /\ t[1] = <<>>
    /\ AllIn(t[2], DigitsAndPeriods)
    /\ t[3] # <<>>
    /\ t[4] = <<>>

\* C5 (shift correction): every content line of a grouped table with day
\* empty, subject of digits and periods, detail non-empty and time empty
\* yields a body row whose data cells are ('', subject, detail); the tokens
\* ('', '3', 'Chapter 1-3', '') yield ('', '3', 'Chapter 1-3').
C5_ShiftCorrection ==
    Rendered =>
        \A i \in 1..Len(SrcContent) :
            LET t == Tokens(SrcContent[i])
            IN  FourConditions(t) =>
                    \E j \in 1..Len(BodyRows(html)) :
                        BodyRows(html)[j].cells = << <<>>, t[2], t[3] >>

\* A bullet line whose text holds no further star.
IsPlainBullet(l) == StartsWith(l, <<STAR, SP>>) /\ Count(l, STAR) = 1

\* C6 (list merging): a run of bullet lines on adjacent lines renders as one
\* list container that wraps all items of the run; '* a', '* b' yields one
\* container with two items.
C6_ListMerging ==
    (Rendered /\ content.text # <<>> /\ \A i \in 1..Len(SrcLines) : IsPlainBullet(SrcLines[i])) =>
        /\ Count(html, "<li>") = Len(SrcLines)
        /\ Count(html, "<ul>") = 1
        /\ Count(html, "</ul>") = 1

\* A data row of a simple table: a pipe line that is no separator line and
\* supplies at least one non-empty cell.
IsSimpleDataRow(l) == IsPipeLine(l) /\ ~IsSeparatorLine(l) /\ NonEmpty(Tokens(l)) # <<>>

\* C7 (simple-table shape): a simple-mode table with a header of M labels and
\* N data rows renders exactly M header cells and N body rows, whatever the
\* cells hold.
C7_SimpleShape ==
    (/\ Rendered
     /\ SrcContent # <<>>
     /\ \A i \in 1..Len(SrcContent) : IsSimpleDataRow(SrcContent[i])
     /\ ~tables[1].isTimetable) =>
        /\ Count(html, "<th>") = Len(HeaderLabels(SrcHeader))
        /\ Len(BodyRows(html)) = Len(SrcContent)

\* C8 (table classification): a table is rendered in grouped mode iff its
\* header list has at least 4 entries and the first equals 'day' compared
\* case-insensitively.  Grouped: the first body row carries the row-span cell
\* and every body row has 3 data cells.  Simple: no row-span cell, and the
\* cells of a row are its non-empty tokens, in place (no padding, no shift).
C8_Classification ==
    (/\ Rendered
     /\ SrcContent # <<>>
     /\ \A i \in 1..Len(SrcContent) :
            IsPipeLine(SrcContent[i]) /\ ~IsSeparatorLine(SrcContent[i])) =>
        LET labels == HeaderLabels(SrcHeader)
            grouped == Len(labels) >= 4 /\ toLowerCase(labels[1]) = <<"d", "a", "y">>
            rows == BodyRows(html)
            kept == SelectSeq(SrcContent, IsDataRow)
            records == SelectSeq(kept, LAMBDA l : Len(Tokens(l)) >= 3)
            filled == SelectSeq(kept, LAMBDA l : NonEmpty(Tokens(l)) # <<>>)
        IN  IF grouped
            THEN /\ Len(rows) = Len(records)
                 /\ rows # <<>> => rows[1].span >= 1
                 /\ \A i \in 1..Len(rows) : Len(rows[i].cells) = 3
            ELSE /\ Len(rows) = Len(filled)
                 /\ \A i \in 1..Len(rows) :
                       rows[i].span = 0 /\ rows[i].cells = NonEmpty(Tokens(filled[i]))

C8_Witness ==
    /\ Rendered
    /\ tables # <<>>
    /\ tables[1].isTimetable
    /\ tables[1].headers[1] = wDAY
    /\ BodyRows(html) # <<>>
    /\ BodyRows(html)[1].span = 1
    /\ Len(BodyRows(html)[1].cells) = 3

\* C9 (table block boundary): a table substitution consumes the header line
\* and the pipe lines after it only; the first line that is blank or does not
\* start with a pipe, and the text after it, stays in the output.  Every line
\* 'foo' of the source is such text.
C9_TableBoundary ==
    Rendered => Occurrences(html, wfoo) = Count(SrcLines, wfoo)

\* C10 (separator lines are never data): a content line of dashes, colons,
\* spaces and pipes produces no body row; no cell of the sources is of that
\* pattern otherwise, so no body row is made of such cells alone.
C10_SeparatorNeverData ==
    (pc = "h4") =>
        \A i \in 1..Len(BodyRows(html)) :
            \E j \in 1..Len(BodyRows(html)[i].cells) :
                ~AllIn(BodyRows(html)[i].cells[j], {DASH, ":", SP})

RECURSIVE Delimiters(_, _)
\* Where the triple-backquote delimiters of s start, read left to right from
\* index from on, without overlap.
Delimiters(s, from) ==
    LET p == Find(s, Fence, from)
    IN  IF p = 0 THEN <<>> ELSE <<p>> \o Delimiters(s, p + 3)

\* s ends with t.
EndsWith(s, t) == Len(s) >= Len(t) /\ Tail0(s, Len(s) - Len(t) + 1) = t

\* C11 (fence pairing): after the fenced-block statement a text with k
\* delimiters holds floor(k/2) code blocks, the n-th made of the interior
\* between delimiters 2n-1 and 2n; the text before the first delimiter is
\* kept, and when k is odd the last delimiter and all text after it are left
\* exactly as in the input.
C11_FencePairing ==
    (pc = "tables") =>
        LET f == Delimiters(content.text, 1)
            k == Len(f)
        IN  /\ Count(html, "<code>") = k \div 2
            /\ \A n \in 1..(k \div 2) :
                  HoldsCode(html, trim(SubSeq(content.text, f[2 * n - 1] + 3, f[2 * n] - 1)))
            /\ k = 0 => html = content.text
            /\ k > 0 => StartsWith(html, SubSeq(content.text, 1, f[1] - 1))
            /\ k % 2 = 1 => EndsWith(html, Tail0(content.text, f[k]))

C11_Witness ==
    /\ pc = "tables"
    /\ Len(Delimiters(content.text, 1)) = 3
    /\ Count(html, "<code>") = 1
    /\ EndsWith(html, <<NL>> \o Fence)

\* The video identifier the url carries: the 'v' parameter of a watch link
\* (a host that includes youtube.com), the path after '/' of a short link
\* (host youtu.be); empty when the text is no URL, the host is neither, or
\* the parameter or path is absent or empty.
VideoId(url) ==
    IF ~IsValidUrl(url) THEN <<>>
    ELSE IF includes(hostname(url), wYoutubeCom)
    THEN IF has(searchParams(url), <<"v">>) THEN get(searchParams(url), <<"v">>) ELSE <<>>
    ELSE IF hostname(url) = wYoutuBe THEN Tail0(pathname(url), 2)
    ELSE <<>>

\* C12 (video URL mapper): the mapper returns the fixed default embed URL for
\* every input that carries no video identifier (no valid URL, no recognised
\* host, empty or absent 'v', empty short-link path), and the embed URL of the
\* identifier otherwise.
C12_UrlFallback ==
    (pc = "embedded") =>
        embedUrl = IF VideoId(video_url) = <<>> THEN FallbackUrl
                   ELSE EmbedPrefix \o VideoId(video_url)

\* C13 (non-string guard): for a content that is no string (null, undefined,
\* a number, an object, an array) no statement of the pipeline runs, no table
\* callback is called, and the body returned is empty.
C13_NonStringGuard ==
    content.type # "string" =>
        /\ pc \in {"start", "done"}
        /\ tables = <<>>
        /\ pc = "done" => html = <<>>

C13_Witness ==
    /\ content.type = "array"
    /\ content.text = <<HASH, SP, "x">>
    /\ pc = "done"
    /\ html = <<>>

\* The place of index i in its run of newlines (1 for the first newline of
\* the run), and whether the run ends at i.
PlaceInRun(s, i) == i - Greatest({j \in 1..(i - 1) : s[j] # NL})

EndsRun(s, i) == i = Len(s) \/ s[i + 1] # NL

\* Left to right, each pair of consecutive newlines is one paragraph marker;
\* the odd newline that ends a run is left over.
PairsMarked(s) ==
    join([i \in 1..Len(s) |->
            IF s[i] # NL THEN <<s[i]>>
            ELSE IF PlaceInRun(s, i) % 2 = 0 THEN <<"<p></p>">>
            ELSE IF EndsRun(s, i) THEN <<NL>>
            ELSE <<>>])

\* Each newline is one line-break marker.
LeftOversMarked(s) == [i \in 1..Len(s) |-> IF s[i] = NL THEN "<br>" ELSE s[i]]

\* C14 (paragraph and line-break normalisation): of the text that enters the
\* last stage, each pair of consecutive newlines, read left to right, becomes
\* one paragraph marker, then each newline left over becomes one line-break
\* marker (a run of n newlines: floor(n/2) paragraph markers, then n mod 2
\* line breaks), and the fragment returned holds no newline.
C14_Normalisation ==
    [][/\ pc = "p" => html' = PairsMarked(html)
       /\ pc = "br" => /\ Occurrences(html, <<NL, NL>>) = 0
                       /\ html' = LeftOversMarked(html)
                       /\ Count(html', NL) = 0]_vars

C14_Witness ==
    /\ Rendered
    /\ content.text = <<"x", NL, NL, NL, "x">>
    /\ html = <<"x", "<p></p>", "<br>", "x">>

\* C15 (simple-mode cells): each content row of a simple table that the row
\* loop keeps (no separator line) emits one cell per token between its outer pipes, in source
\* order, an empty interior token included: '| c |  | d |' yields the three
\* cells 'c', '', 'd'.
C15_SimpleCells ==
    (/\ Rendered
     /\ tables # <<>>
     /\ ~tables[1].isTimetable
     /\ \A i \in 1..Len(SrcContent) :
            /\ IsDataRow(SrcContent[i]) /\ ~IsSeparatorLine(SrcContent[i])
            /\ NonEmpty(Tokens(SrcContent[i])) # <<>>) =>
        /\ Len(BodyRows(html)) = Len(SrcContent)
        /\ \A i \in 1..Len(SrcContent) : BodyRows(html)[i].cells = Tokens(SrcContent[i])

\* The first four tokens of a line, an absent one read as empty: day, subject,
\* detail, time.
FourTokens(l) == [i \in 1..4 |-> IF i <= Len(Tokens(l)) THEN Tokens(l)[i] ELSE <<>>]

\* Day empty, subject of digits and periods (or empty), detail non-empty, time
\* empty.
TriggerHolds(t) ==
    /\ t[1] = <<>>
    /\ AllIn(t[2], DigitsAndPeriods)
    /\ t[3] # <<>>
    /\ t[4] = <<>>

\* C16 (shift-correction trigger): a row of a grouped table that fails one of
\* the four conditions (its day token is non-empty, whether or not it starts
\* with 'Day', or its time is non-empty, or its detail is empty, or its
\* subject holds another character) renders subject, detail and time in their
\* source positions.
C16_ShiftTrigger ==
    (Rendered /\ tables # <<>> /\ Len(BodyRows(html)) = Len(RecordLines)) =>
        \A i \in 1..Len(RecordLines) :
            LET t == FourTokens(RecordLines[i])
            IN  ~TriggerHolds(t) => BodyRows(html)[i].cells = <<t[2], t[3], t[4]>>

\* A content line with fewer than 3 tokens between its outer pipes.
IsMalformed(l) == IsPipeLine(l) /\ Len(Tokens(l)) < 3

\* The text without its malformed content lines.
WithoutMalformed ==
    Lines(<<SrcHeader>> \o SelectSeq(SrcContent, LAMBDA l : ~IsMalformed(l)))

\* The accumulator of the grouped parse after the given content lines.
ParsedOf(ls) == parseRows([tableData |-> <<>>, rowGroups |-> <<>>, currentDay |-> Null], ls)

ParsedUpTo(n) == ParsedOf(SubSeq(SrcContent, 1, n))

\* C17 (a malformed grouped row is skipped with no effect): a content line
\* with fewer than 3 tokens leaves the RowRecords, every group's count and
\* first-row index and the carried key as they were before it, also when its
\* first token starts with 'Day'; it emits no body row, and the body rows of
\* the fragment are those of the text without the malformed lines.
C17_MalformedSkipped ==
    (Rendered /\ tables # <<>>) =>
        /\ \A n \in 1..Len(SrcContent) :
              IsMalformed(SrcContent[n]) => ParsedUpTo(n) = ParsedUpTo(n - 1)
        /\ Len(BodyRows(html)) <=
              Cardinality({n \in 1..Len(SrcContent) : ~IsMalformed(SrcContent[n])})
        /\ BodyRows(html) = BodyRows(Pipeline(WithoutMalformed))
        /\ LET rest == ParsedOf(SelectSeq(SrcContent, LAMBDA l : ~IsMalformed(l)))
           IN  /\ tables[1].tableData = rest.tableData
               /\ tables[1].rowGroups = rest.rowGroups
               /\ tables[1].currentDay = rest.currentDay

C17_Witness ==
    /\ Rendered
    /\ SrcContent = << Row(<<wDay1, wMath, w1to2, w9am>>),
                       Row(<<wDay2, wArt>>),
                       Row(<<<<>>, wScience, w3, w10am>>) >>
    /\ Len(BodyRows(html)) = 2
    /\ BodyRows(html)[1].span = 2
    /\ BodyRows(html)[1].key = wDay1
    /\ tables[1].currentDay = wDay1

\* The columns body row i occupies: its own cells, and the row-span cells of
\* earlier rows that reach down to it.
Columns(rows, i) ==
    (IF rows[i].span > 0 THEN 1 ELSE 0) + Len(rows[i].cells)
        + Cardinality({j \in 1..(i - 1) : rows[j].span > i - j})

\* C18 (fixed row shape): every body row of a grouped table carries exactly
\* three data cells, whatever the number of source tokens, and, with its
\* leading key cell or the span that covers it, occupies exactly four columns.
C18_FixedShape ==
    (Rendered /\ tables # <<>> /\ tables[1].isTimetable) =>
        \A i \in 1..Len(BodyRows(html)) :
            /\ Len(BodyRows(html)[i].cells) = 3
            /\ Columns(BodyRows(html), i) = 4

IsBulletLine(l) == StartsWith(l, <<STAR, SP>>)

\* C19 (bullet lines survive the emphasis passes): in a text without fences
\* and tables every line that begins with a star and a blank renders as one
\* list item, also when the item text holds a star or a starred span; an item
\* text without a star is the content of the item as written.
C19_BulletsSurvive ==
    (Rendered /\ Delimiters(content.text, 1) = <<>>) =>
        /\ Count(html, "<li>") = Cardinality({i \in 1..Len(SrcLines) : IsBulletLine(SrcLines[i])})
        /\ \A i \in 1..Len(SrcLines) :
              IsPlainBullet(SrcLines[i]) =>
                  Occurrences(html, <<"<li>">> \o Tail0(SrcLines[i], 3) \o <<"</li>">>) >= 1

\* The number of RowRecords before the first one whose day token starts with
\* 'Day' (all of them when there is none).
LeadingNoKey(ls) ==
    OrElse(FirstIdx(LAMBDA i : StartsDay(Tokens(ls[i])[1]), 1, Len(ls)), Len(ls) + 1) - 1

\* C20 (missing first key): the rows of a grouped table before the first
\* 'Day'-keyed row form one empty-key group: the first emits a leading cell
\* with empty text and a row span equal to their number, the others emit no
\* leading cell, and the first 'Day'-keyed row after them starts a new group.
C20_MissingFirstKey ==
    (Rendered /\ tables # <<>> /\ Len(BodyRows(html)) = Len(RecordLines)
        /\ LeadingNoKey(RecordLines) > 0) =>
        LET rows == BodyRows(html)
            m == LeadingNoKey(RecordLines)
        IN  /\ rows[1].span = m
            /\ rows[1].key = <<>>
            /\ \A i \in 2..m : rows[i].span = 0
            /\ m < Len(rows) => rows[m + 1].span >= 1

====
